---- MODULE Spec2Model ----
(***************************************************************************)
(* Credential lifecycle of umi-backend: TokenService (issuance, rotation,  *)
(* reuse detection, revocation, blacklist, cleanup), the requireAuth       *)
(* middleware and the auth controllers that call them, over a Redis-like   *)
(* key-value store.  Every store call of a handler is one atomic step of   *)
(* the worker that runs the handler; time is a clock of whole seconds.     *)
(***************************************************************************)
EXTENDS Naturals, Integers, FiniteSets, Sequences, TLC

\* ---------------------------------------------------------------- bounds
\* Last clock value the model reaches.
MaxTime == 2
\* Number of handler calls a behaviour starts: under Spec and SpecFail, and
\* under SpecSeq.
MaxCalls == 3
SeqCalls == 4
\* Number of token families (uuid values) that can be drawn.
MaxFam == 2
\* config.jwt.refreshExpiresIn and config.jwt.expiresIn (environment
\* settings, JWT_REFRESH_EXPIRES_IN / JWT_EXPIRES_IN) in clock ticks.
RefreshLife == 2
AccessLife == 2

\* TTL of a refresh record and of a family pointer: the code's 7 days, the
\* default of config.jwt.refreshExpiresIn, in the same ticks.
RecordTTL == RefreshLife
MaxGets == 2
MaxClients == 2

Procs == {"p1", "p2"}
Users == {"u1", "u2"}
\* User ids that POST /register can create, and the roles a user can have.
Registrants == {"u3"}
Roles == {"admin", "collector"}
Fams == 1..MaxFam
NoFam == 0
Times == 0..MaxTime
\* userAgent values a request can carry; "" is an absent header.
Agents == {"", "ua1"}

\* ---------------------------------------------------------------- tokens
\* A signed token is determined by its secret and type (kind), its claims
\* (sub, fam) and its issue second (iat): jwt.sign is deterministic.
\*   refresh   : refreshSecret, type 'refresh'
\*   access    : access secret, no type
\*   wrongtype : refreshSecret, type other than 'refresh'
\*   garbage   : no valid signature under either secret
Tok(k, u, f, t) == [kind |-> k, sub |-> u, fam |-> f, iat |-> t]
NoTok == Tok("none", "", NoFam, 0)
Garbage == Tok("garbage", "", NoFam, 0)

Life(tok) == IF tok.kind = "access" THEN AccessLife ELSE RefreshLife
Exp(tok) == tok.iat + Life(tok)

\* Variant of VerifyRefresh that skips the expiry check (ignoreExpiration).
VerifyRefresh_IgnoresExpiry(tok, clock) ==
    IF tok.kind \notin {"refresh", "wrongtype"} THEN "JsonWebTokenError"
    ELSE IF tok.kind # "refresh" THEN "InvalidTokenType"
    ELSE "ok"

\* jwt.verify(token, config.jwt.refreshSecret) followed by the type check:
\* signature first, then expiry (clock >= exp), then the discriminator.
VerifyRefresh(tok, clock) ==
    IF tok.kind \notin {"refresh", "wrongtype"} THEN "JsonWebTokenError"
    ELSE IF clock >= Exp(tok) THEN "TokenExpiredError"
    ELSE IF tok.kind # "refresh" THEN "InvalidTokenType"
    ELSE "ok"

\* jwt.verify(token, config.jwt.secret)
VerifyAccess(tok, clock) ==
    IF tok.kind # "access" THEN "JsonWebTokenError"
    ELSE IF clock >= Exp(tok) THEN "TokenExpiredError"
    ELSE "ok"

\* ---------------------------------------------------------------- store
\* A key family of the store is a function whose domain is the set of
\* existing keys.
SetKey(m, k, v) == [x \in DOMAIN m \cup {k} |-> IF x = k THEN v ELSE m[x]]
DelKey(m, k) == [x \in DOMAIN m \ {k} |-> m[x]]
\* Native expiration: an entry lives while clock < its expiry.
Purge(m, clock) == [x \in {y \in DOMAIN m : m[y].exp > clock} |-> m[x]]
Empty == [x \in {} |-> 0]

VARIABLES
    now,           \* clock, seconds
    refreshRec,    \* refresh_token:<token> -> RefreshTokenData (+ expiry)
    familyPtr,     \* token_family:<family> -> current refresh token (+ expiry)
    userSessions,  \* user_sessions:<user> -> set of families (empty = no key)
    blacklist,     \* blacklist:<access token> -> expiry
    pc,            \* per worker: the store call it is about to make
    loc,           \* per worker: the handler's arguments, locals and result
    usedFams,      \* uuid values already drawn
    clientR,       \* refresh tokens handed out to clients
    clientA,       \* access tokens handed out to clients
    rotatedOK,     \* refresh tokens whose rotation returned a pair
    blDone,        \* access tokens for which a logout has returned
    calls,         \* handler calls started so far
    accounts,      \* the user table: user id -> role
    redisClient,   \* utils/redis: the module's client (NoClient = null)
    conns,         \* the clients created so far, in order: each one's state
    gpc,           \* per caller of utils/redis: the await it is suspended at
    gloc           \* per caller: the client it created and what it was given

store == <<refreshRec, familyPtr, userSessions, blacklist>>
hist == <<usedFams, clientR, clientA, rotatedOK, blDone>>
conn == <<redisClient, conns, gpc, gloc>>
vars == <<now, refreshRec, familyPtr, userSessions, blacklist, pc, loc,
          usedFams, clientR, clientA, rotatedOK, blDone, calls, accounts,
          redisClient, conns, gpc, gloc>>

\* The callers of getRedisClient and closeRedisConnection.
Callers == {"c1", "c2", "c3"}
NoClient == 0
\* Locals of a caller: calls made, the client it is waiting on, and the
\* outcome of its last getRedisClient.
NoGet == [n |-> 0, mine |-> NoClient, res |-> "", got |-> NoClient,
          gotState |-> ""]

\* An idle worker takes a request.
Begin(p) ==
    /\ pc[p] = "idle"
    /\ calls' = calls + 1

NoData == [userId |-> "", tokenFamily |-> NoFam, createdAt |-> 0,
           lastUsedAt |-> 0, userAgent |-> "", exp |-> 0]

\* Locals of a worker outside any handler.
NoLoc == [op |-> "none", tok |-> NoTok, user |-> "", fam |-> NoFam,
          ua |-> "", data |-> NoData, newTok |-> NoTok, newAcc |-> NoTok,
          ptrTok |-> NoTok, todoFams |-> {}, todoKeys |-> {}, key |-> "",
          ttl |-> 0, res |-> "", saw |-> FALSE, found |-> FALSE,
          raced |-> FALSE,
          later |-> FALSE, again |-> "no", failed |-> FALSE,
          passed |-> FALSE, stale |-> FALSE, at |-> 0, swept |-> FALSE,
          sessions |-> <<>>, role |-> "", snap |-> <<>>]

Init ==
    /\ now = 0
    /\ refreshRec = Empty
    /\ familyPtr = Empty
    /\ userSessions = [u \in Users \cup Registrants |-> {}]
    /\ blacklist = Empty
    /\ pc = [p \in Procs |-> "idle"]
    /\ loc = [p \in Procs |-> NoLoc]
    /\ usedFams = {}
    /\ clientR = {}
    /\ clientA = {}
    /\ rotatedOK = {}
    /\ blDone = {}
    /\ calls = 0
    /\ accounts = [u \in Users |-> IF u = "u1" THEN "admin" ELSE "collector"]
    /\ redisClient = NoClient
    /\ conns = <<>>
    /\ gpc = [c \in Callers |-> "idle"]
    /\ gloc = [c \in Callers |-> NoGet]

\* A handler returns (or throws) r: the worker is idle again and keeps the
\* call's arguments and outcome until its next call.
Done(l, r) ==
    [NoLoc EXCEPT !.op = l.op, !.tok = l.tok, !.user = l.user, !.fam = l.fam,
                  !.res = r, !.ttl = l.ttl, !.saw = l.saw, !.found = l.found,
                  !.raced = l.raced,
                  !.later = l.later, !.again = l.again, !.failed = l.failed,
                  !.passed = l.passed, !.stale = l.stale, !.at = l.at,
                  !.swept = l.swept, !.sessions = l.sessions, !.snap = l.snap]

Goto(p, label, l) ==
    /\ pc' = [pc EXCEPT ![p] = label]
    /\ loc' = [loc EXCEPT ![p] = l]

Return(p, l, r) == Goto(p, "idle", Done(l, r))

\* ------------------------------------------------- TokenService.generateTokenPair
\* uuidv4(), the two jwt.sign calls and the RefreshTokenData literal.
StartIssue(p, u, ua) ==
    /\ Begin(p)
    /\ Cardinality(usedFams) < MaxFam
    /\ LET f == CHOOSE x \in Fams \ usedFams : \A y \in Fams \ usedFams : x <= y
           l == [NoLoc EXCEPT !.op = "Issue", !.user = u, !.fam = f, !.ua = ua,
                    !.newAcc = Tok("access", u, f, now),
                    !.newTok = Tok("refresh", u, f, now),
                    !.data = [userId |-> u, tokenFamily |-> f, createdAt |-> now,
                              lastUsedAt |-> now, userAgent |-> ua, exp |-> 0]]
       IN /\ usedFams' = usedFams \cup {f}
          /\ Goto(p, "iss_setRec", l)
    /\ UNCHANGED <<conn, accounts, now, store, clientR, clientA, rotatedOK, blDone>>

\* redis.setEx(refresh_token:<refreshToken>, 7 days, data)
IssSetRec(p) ==
    /\ pc[p] = "iss_setRec"
    /\ refreshRec' = SetKey(refreshRec, loc[p].newTok,
                            [loc[p].data EXCEPT !.exp = now + RecordTTL])
    /\ Goto(p, "iss_setPtr", loc[p])
    /\ UNCHANGED <<conn, accounts, calls, now, familyPtr, userSessions, blacklist, hist>>

\* redis.setEx(token_family:<tokenFamily>, 7 days, refreshToken)
IssSetPtr(p) ==
    /\ pc[p] = "iss_setPtr"
    /\ familyPtr' = SetKey(familyPtr, loc[p].fam,
                           [tok |-> loc[p].newTok, exp |-> now + RecordTTL])
    /\ Goto(p, "iss_sAdd", loc[p])
    /\ UNCHANGED <<conn, accounts, calls, now, refreshRec, userSessions, blacklist, hist>>

\* Variant of IssSAdd that returns the pair without the sAdd.
IssSAdd_NoIndex(p) ==
    /\ pc[p] = "iss_sAdd"
    /\ clientR' = clientR \cup {loc[p].newTok}
    /\ clientA' = clientA \cup {loc[p].newAcc}
    /\ Return(p, loc[p], "pair")
    /\ UNCHANGED <<conn, accounts, calls, now, store, usedFams, rotatedOK, blDone>>

\* redis.sAdd(user_sessions:<user.id>, tokenFamily); return the pair
IssSAdd(p) ==
    /\ pc[p] = "iss_sAdd"
    /\ userSessions' = [userSessions EXCEPT ![loc[p].user] = @ \cup {loc[p].fam}]
    /\ clientR' = clientR \cup {loc[p].newTok}
    /\ clientA' = clientA \cup {loc[p].newAcc}
    /\ Return(p, loc[p], "pair")
    /\ UNCHANGED <<conn, accounts, calls, now, refreshRec, familyPtr, blacklist, usedFams, rotatedOK, blDone>>

\* ---------------------------------------------------------------- clock
\* A second passes; the store drops the entries whose TTL has run out.
Tick ==
    /\ now < MaxTime
    /\ now' = now + 1
    /\ refreshRec' = Purge(refreshRec, now + 1)
    /\ familyPtr' = Purge(familyPtr, now + 1)
    /\ blacklist' = Purge(blacklist, now + 1)
    /\ UNCHANGED <<conn, accounts, calls, userSessions, pc, loc, hist>>

\* ------------------------------------------------- TokenService.revokeTokenFamily
\* revokeTokenFamily has run to its end inside handler l.op: the reuse path
\* of refreshTokenRotation throws, revokeTokenFamily itself returns,
\* revokeAllUserTokens takes the next member or goes on to delete the set.
RevokeReturn(p, l) ==
    IF l.op = "Rotate" THEN Return(p, l, "SecurityBreach")
    ELSE IF l.op \in {"RevokeFamily", "RevokeSession"} THEN Return(p, l, "ok")
    ELSE IF l.todoFams = {} THEN Goto(p, "ra_del", l)
    ELSE \E f \in l.todoFams :
            Goto(p, "rv_getPtr",
                 [l EXCEPT !.fam = f, !.todoFams = @ \ {f}, !.ptrTok = NoTok])

\* if (!tokenFamily) return;
EnterRevoke(p, l) ==
    IF l.fam = NoFam THEN RevokeReturn(p, l) ELSE Goto(p, "rv_getPtr", l)

\* What a revocation call remembers of the store for the caller's sake: the
\* store when the request was first made (and the time) and when this call
\* started.  A call that repeats the worker's failed previous request keeps
\* the first.
Snapshot(retry, prev) ==
    [first |-> IF retry THEN prev.snap.first
               ELSE <<refreshRec, familyPtr, userSessions>>,
     at |-> IF retry THEN prev.snap.at ELSE now,
     start |-> <<refreshRec, familyPtr, userSessions>>]

StartRevokeFamily(p, f) ==
    /\ Begin(p)
    /\ LET prev == loc[p]
           same == prev.op = "RevokeFamily" /\ prev.fam = f
           rep == IF same /\ prev.res = "ok"
                  THEN (IF prev.found THEN "live" ELSE "dead")
                  ELSE IF same /\ prev.res = "StoreError" THEN "retry"
                  ELSE "no"
       IN EnterRevoke(p, [NoLoc EXCEPT !.op = "RevokeFamily", !.fam = f,
                             !.again = rep,
                             !.snap = Snapshot(rep = "retry", prev),
                             !.later = \E t \in clientR : t.fam = f])
    /\ UNCHANGED <<conn, accounts, now, store, hist>>

\* Variant of RvGetPtr that throws when the family has no pointer.
RvGetPtr_ThrowsOnMissing(p) ==
    /\ pc[p] = "rv_getPtr"
    /\ LET f == loc[p].fam
       IN IF f \in DOMAIN familyPtr
          THEN Goto(p, "rv_delRec", [loc[p] EXCEPT !.ptrTok = familyPtr[f].tok,
                                                   !.found = TRUE])
          ELSE Return(p, loc[p], "FamilyNotFound")
    /\ UNCHANGED <<conn, accounts, calls, now, store, hist>>

\* redis.get(token_family:<tokenFamily>)
RvGetPtr(p) ==
    /\ pc[p] = "rv_getPtr"
    /\ LET f == loc[p].fam
       IN IF f \in DOMAIN familyPtr
          THEN Goto(p, "rv_delRec", [loc[p] EXCEPT !.ptrTok = familyPtr[f].tok,
                                                   !.found = TRUE])
          ELSE Goto(p, "rv_delPtr", loc[p])
    /\ UNCHANGED <<conn, accounts, calls, now, store, hist>>

\* Variant of RvDelRec that also blacklists the access tokens of the
\* family for their lifetime.
RvDelRec_BlacklistsFamily(p) ==
    /\ pc[p] = "rv_delRec"
    /\ refreshRec' = DelKey(refreshRec, loc[p].ptrTok)
    /\ blacklist' = [t \in DOMAIN blacklist \cup
                             {a \in clientA : a.fam = loc[p].fam} |->
                        IF t \in DOMAIN blacklist THEN blacklist[t]
                        ELSE [exp |-> now + AccessLife]]
    /\ Goto(p, "rv_delPtr", loc[p])
    /\ UNCHANGED <<conn, accounts, calls, now, familyPtr, userSessions, hist>>

\* if (refreshToken) redis.del(refresh_token:<refreshToken>)
RvDelRec(p) ==
    /\ pc[p] = "rv_delRec"
    /\ refreshRec' = DelKey(refreshRec, loc[p].ptrTok)
    /\ Goto(p, "rv_delPtr", loc[p])
    /\ UNCHANGED <<conn, accounts, calls, now, familyPtr, userSessions, blacklist, hist>>

\* Variant of RvDelPtr that takes a family without pointer for revoked
\* already and returns.
RvDelPtr_SkipsWhenGone(p) ==
    /\ pc[p] = "rv_delPtr"
    /\ familyPtr' = DelKey(familyPtr, loc[p].fam)
    /\ IF loc[p].found THEN Goto(p, "rv_keys", loc[p])
       ELSE RevokeReturn(p, loc[p])
    /\ UNCHANGED <<conn, accounts, calls, now, refreshRec, userSessions, blacklist, hist>>

\* redis.del(token_family:<tokenFamily>)
RvDelPtr(p) ==
    /\ pc[p] = "rv_delPtr"
    /\ familyPtr' = DelKey(familyPtr, loc[p].fam)
    /\ Goto(p, "rv_keys", loc[p])
    /\ UNCHANGED <<conn, accounts, calls, now, refreshRec, userSessions, blacklist, hist>>

\* redis.keys(user_sessions:*): the users whose set exists
RvKeys(p) ==
    /\ pc[p] = "rv_keys"
    /\ LET keys == {u \in DOMAIN userSessions : userSessions[u] # {}}
       IN IF keys = {} THEN RevokeReturn(p, loc[p])
          ELSE Goto(p, "rv_sRem", [loc[p] EXCEPT !.todoKeys = keys])
    /\ UNCHANGED <<conn, accounts, calls, now, store, hist>>

\* for (const key of keys) redis.sRem(key, tokenFamily), in the order KEYS gave
RvSRem(p) ==
    /\ pc[p] = "rv_sRem"
    /\ \E k \in loc[p].todoKeys :
          /\ userSessions' = [userSessions EXCEPT ![k] = @ \ {loc[p].fam}]
          /\ LET l == [loc[p] EXCEPT !.todoKeys = @ \ {k}]
             IN IF l.todoKeys = {} THEN RevokeReturn(p, l)
                ELSE Goto(p, "rv_sRem", l)
    /\ UNCHANGED <<conn, accounts, calls, now, refreshRec, familyPtr, blacklist, hist>>

\* ------------------------------------------------- TokenService.revokeAllUserTokens
StartRevokeAll(p, u) ==
    /\ Begin(p)
    /\ LET prev == loc[p]
           retry == prev.op = "RevokeAll" /\ prev.user = u
                    /\ prev.res = "StoreError"
       IN Goto(p, "ra_members",
               [NoLoc EXCEPT !.op = "RevokeAll", !.user = u,
                             !.again = IF retry THEN "retry" ELSE "no",
                             !.snap = Snapshot(retry, prev)])
    /\ UNCHANGED <<conn, accounts, now, store, hist>>

\* Variant of RaMembers that takes the members of every user's set.
RaMembers_EveryUser(p) ==
    /\ pc[p] = "ra_members"
    /\ RevokeReturn(p, [loc[p] EXCEPT !.todoFams =
                          UNION {userSessions[u] : u \in DOMAIN userSessions}])
    /\ UNCHANGED <<conn, accounts, calls, now, store, hist>>

\* redis.sMembers(user_sessions:<userId>), then the loop over the members
RaMembers(p) ==
    /\ pc[p] = "ra_members"
    /\ RevokeReturn(p, [loc[p] EXCEPT !.todoFams = userSessions[loc[p].user]])
    /\ UNCHANGED <<conn, accounts, calls, now, store, hist>>

\* redis.del(user_sessions:<userId>)
RaDel(p) ==
    /\ pc[p] = "ra_del"
    /\ userSessions' = [userSessions EXCEPT ![loc[p].user] = {}]
    /\ Return(p, loc[p], "ok")
    /\ UNCHANGED <<conn, accounts, calls, now, refreshRec, familyPtr, blacklist, hist>>

\* ------------------------------------------------- TokenService.refreshTokenRotation
\* jwt.verify and the type check; a failure goes to the catch block, which
\* deletes the record of an expired token and rethrows.
StartRotate(p, tok, ua) ==
    /\ Begin(p)
    /\ LET v == VerifyRefresh(tok, now)
           l == [NoLoc EXCEPT !.op = "Rotate", !.tok = tok, !.ua = ua,
                    !.user = tok.sub, !.fam = tok.fam,
                    !.later = (tok \in rotatedOK)]
       IN IF v = "ok" THEN Goto(p, "rot_get", l)
          ELSE IF v = "TokenExpiredError" THEN Goto(p, "rot_expDel", l)
          ELSE Return(p, l, v)
    /\ UNCHANGED <<conn, accounts, now, store, hist>>

\* catch: redis.del(refresh_token:<oldRefreshToken>); throw error
RotExpDel(p) ==
    /\ pc[p] = "rot_expDel"
    /\ refreshRec' = DelKey(refreshRec, loc[p].tok)
    /\ Return(p, [loc[p] EXCEPT !.stale = (loc[p].tok \in DOMAIN refreshRec)],
              "TokenExpiredError")
    /\ UNCHANGED <<conn, accounts, calls, now, familyPtr, userSessions, blacklist, hist>>

\* Variant of RotGet without the reuse check: a missing record is rotated
\* like a present one.
RotGet_NoReuseCheck(p) ==
    /\ pc[p] = "rot_get"
    /\ LET t == loc[p].tok
       IN Goto(p, "rot_del",
               [loc[p] EXCEPT !.data = IF t \in DOMAIN refreshRec
                                       THEN refreshRec[t] ELSE NoData,
                              !.saw = t \in DOMAIN refreshRec])
    /\ UNCHANGED <<conn, accounts, calls, now, store, hist>>

\* redis.get(refresh_token:<oldRefreshToken>); a missing record is taken for
\* reuse: revokeTokenFamily(decoded.tokenFamily), then throw.
RotGet(p) ==
    /\ pc[p] = "rot_get"
    /\ LET t == loc[p].tok
       IN IF t \in DOMAIN refreshRec
          THEN Goto(p, "rot_del",
                    [loc[p] EXCEPT !.data = refreshRec[t], !.saw = TRUE,
                        !.raced = \E q \in Procs \ {p} :
                                     /\ pc[q] = "rot_del"
                                     /\ loc[q].tok = t])
          ELSE EnterRevoke(p, loc[p])
    /\ UNCHANGED <<conn, accounts, calls, now, store, hist>>

\* Variant of RotDel that takes a delete of an already deleted record for
\* reuse (a conditional delete).
RotDel_Conditional(p) ==
    /\ pc[p] = "rot_del"
    /\ refreshRec' = DelKey(refreshRec, loc[p].tok)
    /\ LET l == loc[p]
           d == l.data
       IN IF l.tok \notin DOMAIN refreshRec THEN EnterRevoke(p, l)
          ELSE Goto(p, "rot_setRec",
               [l EXCEPT !.newAcc = Tok("access", l.tok.sub, l.tok.fam, now),
                         !.newTok = Tok("refresh", l.tok.sub, l.tok.fam, now),
                         !.data = [d EXCEPT !.lastUsedAt = now,
                                      !.userAgent = IF l.ua # "" THEN l.ua ELSE @]])
    /\ UNCHANGED <<conn, accounts, calls, now, familyPtr, userSessions, blacklist, hist>>

\* Variant of RotDel that builds the new RefreshTokenData from scratch, as
\* generateTokenPair does.
RotDel_FreshMetadata(p) ==
    /\ pc[p] = "rot_del"
    /\ refreshRec' = DelKey(refreshRec, loc[p].tok)
    /\ LET l == loc[p]
           d == l.data
       IN Goto(p, "rot_setRec",
               [l EXCEPT !.newAcc = Tok("access", l.tok.sub, l.tok.fam, now),
                         !.newTok = Tok("refresh", l.tok.sub, l.tok.fam, now),
                         !.data = [d EXCEPT !.createdAt = now, !.lastUsedAt = now,
                                            !.userAgent = l.ua]])
    /\ UNCHANGED <<conn, accounts, calls, now, familyPtr, userSessions, blacklist, hist>>

\* redis.del(refresh_token:<oldRefreshToken>); then the new pair is signed
\* with the decoded claims and the new RefreshTokenData is built.
RotDel(p) ==
    /\ pc[p] = "rot_del"
    /\ refreshRec' = DelKey(refreshRec, loc[p].tok)
    /\ LET l == loc[p]
           d == l.data
       IN Goto(p, "rot_setRec",
               [l EXCEPT !.newAcc = Tok("access", l.tok.sub, l.tok.fam, now),
                         !.newTok = Tok("refresh", l.tok.sub, l.tok.fam, now),
                         !.data = [d EXCEPT !.lastUsedAt = now,
                                      !.userAgent = IF l.ua # "" THEN l.ua ELSE @]])
    /\ UNCHANGED <<conn, accounts, calls, now, familyPtr, userSessions, blacklist, hist>>

\* redis.setEx(refresh_token:<refreshToken>, 7 days, newTokenData)
RotSetRec(p) ==
    /\ pc[p] = "rot_setRec"
    /\ refreshRec' = SetKey(refreshRec, loc[p].newTok,
                            [loc[p].data EXCEPT !.exp = now + RecordTTL])
    /\ Goto(p, "rot_setPtr", loc[p])
    /\ UNCHANGED <<conn, accounts, calls, now, familyPtr, userSessions, blacklist, hist>>

\* redis.setEx(token_family:<decoded.tokenFamily>, 7 days, refreshToken);
\* return the pair
RotSetPtr(p) ==
    /\ pc[p] = "rot_setPtr"
    /\ familyPtr' = SetKey(familyPtr, loc[p].fam,
                           [tok |-> loc[p].newTok, exp |-> now + RecordTTL])
    /\ clientR' = clientR \cup {loc[p].newTok}
    /\ clientA' = clientA \cup {loc[p].newAcc}
    /\ rotatedOK' = rotatedOK \cup {loc[p].tok}
    /\ Return(p, loc[p], "pair")
    /\ UNCHANGED <<conn, accounts, calls, now, refreshRec, userSessions, blacklist, usedFams, blDone>>

\* Refresh tokens a client can present: the ones handed out, a string that
\* is no signed token, a token signed with the refresh secret whose type is
\* not 'refresh', and one signed with the refresh secret outside the service
\* (no tokenFamily claim).
WrongType == Tok("wrongtype", "u1", 1, 0)
Foreign == Tok("refresh", "u1", NoFam, 0)
Presentable == clientR \cup {Garbage, WrongType, Foreign}

\* ------------------------------------------------- TokenService.blacklistAccessToken
\* Variant of EnterBlacklist that blacklists for the token's full lifetime.
EnterBlacklist_FullLifetime(p, l, r) ==
    IF VerifyAccess(l.tok, now) = "ok"
    THEN Goto(p, "bl_setEx", [l EXCEPT !.ttl = AccessLife])
    ELSE Return(p, l, r)

\* try { jwt.verify; ttl = exp - now; if (ttl > 0) setEx } catch { }, entered
\* from handler l.op; r is what that handler answers once the call is over.
EnterBlacklist(p, l, r) ==
    LET ttl == Exp(l.tok) - now
    IN IF VerifyAccess(l.tok, now) = "ok" /\ ttl > 0
       THEN Goto(p, "bl_setEx", [l EXCEPT !.ttl = ttl])
       ELSE Return(p, l, r)

\* What the handler around blacklistAccessToken answers: the logout
\* controller sends 200 'Logged out successfully'.
BlacklistAnswer(l) == IF l.op = "Logout" THEN "200:LoggedOut" ELSE "ok"

StartBlacklist(p, tok) ==
    /\ Begin(p)
    /\ LET l == [NoLoc EXCEPT !.op = "Blacklist", !.tok = tok]
       IN EnterBlacklist(p, l, BlacklistAnswer(l))
    /\ UNCHANGED <<conn, accounts, now, store, hist>>

\* Variant of BlSetEx that also drops the token's family from the user's
\* session set.
BlSetEx_DropsSession(p) ==
    /\ pc[p] = "bl_setEx"
    /\ blacklist' = SetKey(blacklist, loc[p].tok, [exp |-> now + loc[p].ttl])
    /\ userSessions' = [userSessions EXCEPT ![loc[p].tok.sub] = @ \ {loc[p].tok.fam}]
    /\ blDone' = blDone \cup {loc[p].tok}
    /\ Return(p, loc[p], BlacklistAnswer(loc[p]))
    /\ UNCHANGED <<conn, accounts, calls, now, refreshRec, familyPtr,
                   usedFams, clientR, clientA, rotatedOK>>

\* Variant of BlSetEx that blacklists every access token of the token's
\* family.
BlSetEx_WholeFamily(p) ==
    /\ pc[p] = "bl_setEx"
    /\ blacklist' = [t \in DOMAIN blacklist \cup
                             {a \in clientA : a.fam = loc[p].tok.fam} |->
                        IF t.fam = loc[p].tok.fam THEN [exp |-> now + loc[p].ttl]
                        ELSE blacklist[t]]
    /\ blDone' = blDone \cup {loc[p].tok}
    /\ Return(p, loc[p], BlacklistAnswer(loc[p]))
    /\ UNCHANGED <<conn, accounts, calls, now, refreshRec, familyPtr, userSessions,
                   usedFams, clientR, clientA, rotatedOK>>

\* Variant of BlSetEx that also ends the token's session: it deletes the
\* family's pointer and the record the pointer names.
BlSetEx_EndsSession(p) ==
    /\ pc[p] = "bl_setEx"
    /\ blacklist' = SetKey(blacklist, loc[p].tok, [exp |-> now + loc[p].ttl])
    /\ LET f == loc[p].tok.fam
       IN /\ refreshRec' = IF f \in DOMAIN familyPtr
                           THEN DelKey(refreshRec, familyPtr[f].tok)
                           ELSE refreshRec
          /\ familyPtr' = DelKey(familyPtr, f)
    /\ blDone' = blDone \cup {loc[p].tok}
    /\ Return(p, loc[p], BlacklistAnswer(loc[p]))
    /\ UNCHANGED <<conn, accounts, calls, now, userSessions,
                   usedFams, clientR, clientA, rotatedOK>>

\* redis.setEx(blacklist:<token>, ttl, '1')
BlSetEx(p) ==
    /\ pc[p] = "bl_setEx"
    /\ blacklist' = SetKey(blacklist, loc[p].tok, [exp |-> now + loc[p].ttl])
    /\ blDone' = blDone \cup {loc[p].tok}
    /\ Return(p, loc[p], BlacklistAnswer(loc[p]))
    /\ UNCHANGED <<conn, accounts, calls, now, refreshRec, familyPtr, userSessions,
                   usedFams, clientR, clientA, rotatedOK>>

\* ------------------------------------------------- requireAuth and the routes behind it
\* A request with 'Authorization: Bearer <tok>' to POST /logout (route
\* "Logout") or to another protected route (route "Auth").
StartAuth(p, tok, route) ==
    /\ Begin(p)
    /\ Goto(p, "au_isBl", [NoLoc EXCEPT !.op = route, !.tok = tok,
                              !.later = (tok \in blDone)])
    /\ UNCHANGED <<conn, accounts, now, store, hist>>

\* tokenService.isTokenBlacklisted(token), then jwt.verify(token, secret)
AuIsBl(p) ==
    /\ pc[p] = "au_isBl"
    /\ LET v == VerifyAccess(loc[p].tok, now)
       IN IF loc[p].tok \in DOMAIN blacklist
          THEN Return(p, loc[p], "401:Token has been revoked")
          ELSE IF v = "TokenExpiredError" THEN Return(p, loc[p], "401:Token expired")
          ELSE IF v # "ok" THEN Return(p, loc[p], "401:Invalid token")
          ELSE Goto(p, "au_user", loc[p])
    /\ UNCHANGED <<conn, accounts, calls, now, store, hist>>

\* The revokeSession controller behind requireAuth: 400 without a
\* tokenFamily in the body, else authService.revokeTokenFamily(tokenFamily).
RevokeSession(p, l) ==
    IF l.fam = NoFam THEN Return(p, l, "400:Token family required")
    ELSE Goto(p, "rv_getPtr", l)

\* prisma.user.findUnique; with a user, next(): the route's handler runs.
AuUser(p) ==
    /\ pc[p] = "au_user"
    /\ \E found \in BOOLEAN :
          LET l == [loc[p] EXCEPT !.passed = found]
          IN IF ~found THEN Return(p, l, "401:User not found")
             ELSE IF l.op = "Logout" THEN EnterBlacklist(p, l, BlacklistAnswer(l))
             ELSE IF l.op = "RevokeSession" THEN RevokeSession(p, l)
             ELSE Return(p, l, "next")
    /\ UNCHANGED <<conn, accounts, calls, now, store, hist>>

\* A request to POST /sessions/revoke with 'Authorization: Bearer <tok>' and
\* tokenFamily f in the body (NoFam: the body has none).
StartRevokeSession(p, tok, f) ==
    /\ Begin(p)
    /\ Goto(p, "au_isBl", [NoLoc EXCEPT !.op = "RevokeSession", !.tok = tok,
                              !.user = tok.sub, !.fam = f,
                              !.snap = Snapshot(FALSE, loc[p])])
    /\ UNCHANGED <<conn, accounts, now, store, hist>>

\* ------------------------------------------------- TokenService.cleanupExpiredTokens
\* The two nested loops: the next member of the current set, else the next
\* key, else the sweep is over.
ClAdvance(p, l) ==
    IF l.todoFams # {}
    THEN \E f \in l.todoFams :
            Goto(p, "cl_exists", [l EXCEPT !.fam = f, !.todoFams = @ \ {f}])
    ELSE IF l.todoKeys # {}
    THEN \E k \in l.todoKeys :
            Goto(p, "cl_members", [l EXCEPT !.key = k, !.todoKeys = @ \ {k}])
    ELSE Return(p, l, "ok")

StartCleanup(p) ==
    /\ Begin(p)
    /\ Goto(p, "cl_keys", [NoLoc EXCEPT !.op = "Cleanup", !.at = now])
    /\ UNCHANGED <<conn, accounts, now, store, hist>>

\* redis.keys(user_sessions:*)
ClKeys(p) ==
    /\ pc[p] = "cl_keys"
    /\ ClAdvance(p, [loc[p] EXCEPT !.todoKeys = {u \in DOMAIN userSessions : userSessions[u] # {}}])
    /\ UNCHANGED <<conn, accounts, calls, now, store, hist>>

\* redis.sMembers(userKey)
ClMembers(p) ==
    /\ pc[p] = "cl_members"
    /\ ClAdvance(p, [loc[p] EXCEPT !.todoFams = userSessions[loc[p].key]])
    /\ UNCHANGED <<conn, accounts, calls, now, store, hist>>

\* Variant of ClExists that takes every family for live.
ClExists_KeepsAll(p) ==
    /\ pc[p] = "cl_exists"
    /\ ClAdvance(p, loc[p])
    /\ UNCHANGED <<conn, accounts, calls, now, store, hist>>

\* redis.exists(token_family:<family>)
ClExists(p) ==
    /\ pc[p] = "cl_exists"
    /\ IF loc[p].fam \in DOMAIN familyPtr
       THEN ClAdvance(p, loc[p])
       ELSE Goto(p, "cl_sRem", loc[p])
    /\ UNCHANGED <<conn, accounts, calls, now, store, hist>>

\* redis.sRem(userKey, family)
ClSRem(p) ==
    /\ pc[p] = "cl_sRem"
    /\ userSessions' = [userSessions EXCEPT ![loc[p].key] = @ \ {loc[p].fam}]
    /\ ClAdvance(p, [loc[p] EXCEPT !.swept = TRUE])
    /\ UNCHANGED <<conn, accounts, calls, now, refreshRec, familyPtr, blacklist, hist>>

\* ------------------------------------------------- a store call that rejects
\* The store call a worker is waiting on rejects (connection lost, command
\* refused).  blacklistAccessToken swallows the rejection in its catch block;
\* requireAuth answers 500; every other handler lets it propagate.
StoreLabels == {"iss_setRec", "iss_setPtr", "iss_sAdd", "rot_get", "rot_expDel",
                "rot_del", "rot_setRec", "rot_setPtr", "rv_getPtr", "rv_delRec",
                "rv_delPtr", "rv_keys", "rv_sRem", "ra_members", "ra_del",
                "bl_setEx", "au_isBl", "cl_keys", "cl_members", "cl_exists",
                "cl_sRem", "gs_members", "gs_getPtr", "gs_getRec"}

StoreFail(p) ==
    /\ pc[p] \in StoreLabels
    /\ LET l == [loc[p] EXCEPT !.failed = TRUE]
       IN IF pc[p] = "bl_setEx"
          THEN /\ blDone' = blDone \cup {l.tok}
               /\ Return(p, l, BlacklistAnswer(l))
          ELSE /\ blDone' = blDone
               /\ Return(p, l, IF pc[p] = "au_isBl" THEN "500:Authentication error"
                                ELSE "StoreError")
    /\ UNCHANGED <<conn, accounts, calls, now, store, usedFams, clientR, clientA, rotatedOK>>

\* ------------------------------------------------- TokenService.getUserSessions
\* The entries the loop pushes: one for each member of the user's set whose
\* pointer exists and whose pointed-to record exists.
SessionEntries(u) ==
    {[tokenFamily |-> f,
      createdAt |-> refreshRec[familyPtr[f].tok].createdAt,
      lastUsedAt |-> refreshRec[familyPtr[f].tok].lastUsedAt,
      userAgent |-> refreshRec[familyPtr[f].tok].userAgent] :
        f \in {g \in userSessions[u] : /\ g \in DOMAIN familyPtr
                                       /\ familyPtr[g].tok \in DOMAIN refreshRec}}

SessionFamilies(u) == {e.tokenFamily : e \in SessionEntries(u)}

\* Variant of the comparator that orders oldest use first.
Comparator_Ascending(a, b) == a.lastUsedAt - b.lastUsedAt

\* The sort comparator (a, b) => b.lastUsedAt - a.lastUsedAt: positive when b
\* goes before a.
Comparator(a, b) == b.lastUsedAt - a.lastUsedAt

\* Array.prototype.sort with that comparator (a stable sort): e goes behind
\* every element it does not have to precede.
RECURSIVE InsertSession(_, _)
InsertSession(sorted, e) ==
    IF sorted = <<>> THEN <<e>>
    ELSE IF Comparator(sorted[1], e) > 0
         THEN <<e>> \o sorted
         ELSE <<sorted[1]>> \o InsertSession(Tail(sorted), e)

RECURSIVE SortSessions(_)
SortSessions(list) ==
    IF list = <<>> THEN <<>>
    ELSE InsertSession(SortSessions(SubSeq(list, 1, Len(list) - 1)),
                       list[Len(list)])

\* The loop of getUserSessions: the next family, else sort and return.
GsAdvance(p, l) ==
    IF l.todoFams # {}
    THEN \E f \in l.todoFams :
            Goto(p, "gs_getPtr", [l EXCEPT !.fam = f, !.todoFams = @ \ {f}])
    ELSE Return(p, [l EXCEPT !.sessions = SortSessions(@)], "ok")

StartGetSessions(p, u) ==
    /\ Begin(p)
    /\ Goto(p, "gs_members", [NoLoc EXCEPT !.op = "GetSessions", !.user = u,
                                           !.at = now])
    /\ UNCHANGED <<conn, accounts, now, store, hist>>

\* redis.sMembers(user_sessions:<userId>)
GsMembers(p) ==
    /\ pc[p] = "gs_members"
    /\ GsAdvance(p, [loc[p] EXCEPT !.todoFams = userSessions[loc[p].user]])
    /\ UNCHANGED <<conn, accounts, calls, now, store, hist>>

\* redis.get(token_family:<family>)
GsGetPtr(p) ==
    /\ pc[p] = "gs_getPtr"
    /\ IF loc[p].fam \in DOMAIN familyPtr
       THEN Goto(p, "gs_getRec", [loc[p] EXCEPT !.ptrTok = familyPtr[loc[p].fam].tok])
       ELSE GsAdvance(p, loc[p])
    /\ UNCHANGED <<conn, accounts, calls, now, store, hist>>

\* redis.get(refresh_token:<refreshToken>); sessions.push({...})
GsGetRec(p) ==
    /\ pc[p] = "gs_getRec"
    /\ LET t == loc[p].ptrTok
       IN IF t \in DOMAIN refreshRec
          THEN GsAdvance(p, [loc[p] EXCEPT !.sessions = Append(@,
                               [tokenFamily |-> loc[p].fam,
                                createdAt |-> refreshRec[t].createdAt,
                                lastUsedAt |-> refreshRec[t].lastUsedAt,
                                userAgent |-> refreshRec[t].userAgent])])
          ELSE GsAdvance(p, loc[p])
    /\ UNCHANGED <<conn, accounts, calls, now, store, hist>>

\* ------------------------------------------------- authController.refreshToken
\* What POST /refresh answers for the outcome r of refreshTokenRotation: the
\* pair, the reuse answer when the message holds 'security breach', else the
\* error goes to errorHandler.
RefreshAnswer(r) ==
    IF r = "pair" THEN "200"
    ELSE IF r = "SecurityBreach" THEN "401:TOKEN_REUSE_DETECTED"
    ELSE IF r = "JsonWebTokenError" THEN "401:Invalid token"
    ELSE IF r = "TokenExpiredError" THEN "401:Token expired"
    ELSE "500"

\* ------------------------------------------------- POST /register
\* router.post('/register', validate(...), register): the route runs no
\* requireAuth, so the request's bearer token tok (NoTok when it has none)
\* is not looked at.  u and role are the user the body describes.
StartRegister(p, tok, u, role) ==
    /\ Begin(p)
    /\ Cardinality(usedFams) < MaxFam
    /\ Goto(p, "reg_create", [NoLoc EXCEPT !.op = "Register", !.tok = tok,
                                           !.user = u, !.role = role])
    /\ UNCHANGED <<conn, accounts, now, store, hist>>

\* authService.createUser (prisma.user.create; P2002 becomes 409), then
\* authService.generateTokens: uuidv4(), the two jwt.sign calls and the
\* RefreshTokenData literal of generateTokenPair.
RegCreate(p) ==
    /\ pc[p] = "reg_create"
    /\ IF loc[p].user \in DOMAIN accounts
       THEN /\ Return(p, loc[p], "409:User with this email already exists")
            /\ UNCHANGED <<conn, accounts, usedFams>>
       ELSE LET u == loc[p].user
                f == CHOOSE x \in Fams \ usedFams : \A y \in Fams \ usedFams : x <= y
            IN /\ Cardinality(usedFams) < MaxFam
               /\ accounts' = [x \in DOMAIN accounts \cup {u} |->
                                  IF x = u THEN loc[p].role ELSE accounts[x]]
               /\ usedFams' = usedFams \cup {f}
               /\ Goto(p, "iss_setRec",
                       [loc[p] EXCEPT !.fam = f,
                           !.newAcc = Tok("access", u, f, now),
                           !.newTok = Tok("refresh", u, f, now),
                           !.data = [userId |-> u, tokenFamily |-> f,
                                     createdAt |-> now, lastUsedAt |-> now,
                                     userAgent |-> "", exp |-> 0]])
    /\ UNCHANGED <<conn, calls, now, store, clientR, clientA, rotatedOK, blDone>>

\* What POST /register answers for outcome r: 201 with the user and the pair.
RegisterAnswer(r) == IF r = "pair" THEN "201" ELSE r

\* ------------------------------------------------- utils/redis
\* The token handlers' state, which the client module does not touch.
tokens == <<accounts, now, store, hist, pc, loc, calls>>

\* getRedisClient up to its first await: with no client, createClient, the
\* two handlers and connect(), whose promise is awaited; with a client, the
\* module's client is returned as it is.
GetRedisClient(c) ==
    /\ gpc[c] = "idle"
    /\ gloc[c].n < MaxGets
    /\ IF redisClient = NoClient
       THEN /\ Len(conns) < MaxClients
            /\ conns' = Append(conns, "connecting")
            /\ redisClient' = Len(conns) + 1
            /\ gpc' = [gpc EXCEPT ![c] = "connect"]
            /\ gloc' = [gloc EXCEPT ![c] = [NoGet EXCEPT !.n = gloc[c].n + 1,
                                                         !.mine = Len(conns) + 1]]
       ELSE /\ gloc' = [gloc EXCEPT ![c] =
                          [NoGet EXCEPT !.n = gloc[c].n + 1, !.res = "client",
                                        !.got = redisClient,
                                        !.gotState = conns[redisClient]]]
            /\ UNCHANGED <<redisClient, conns, gpc>>
    /\ UNCHANGED tokens

\* The connect() of client i settles: the connection is up, or it fails.
ConnectSettles(i, ok) ==
    /\ i \in DOMAIN conns
    /\ conns[i] = "connecting"
    /\ conns' = [conns EXCEPT ![i] = IF ok THEN "ready" ELSE "failed"]
    /\ UNCHANGED <<redisClient, gpc, gloc, tokens>>

\* getRedisClient after await redisClient.connect(): a rejection is thrown
\* on (the module keeps the client); else return redisClient.
GetResume(c) ==
    /\ gpc[c] = "connect"
    /\ conns[gloc[c].mine] # "connecting"
    /\ gpc' = [gpc EXCEPT ![c] = "idle"]
    /\ gloc' = [gloc EXCEPT ![c] =
                  IF conns[@.mine] = "failed"
                  THEN [@ EXCEPT !.res = "throw"]
                  ELSE [@ EXCEPT !.res = "client", !.got = redisClient,
                                 !.gotState = IF redisClient = NoClient THEN "null"
                                              ELSE conns[redisClient]]]
    /\ UNCHANGED <<redisClient, conns, tokens>>

\* closeRedisConnection up to await redisClient.quit(); without a client
\* it returns at once.
CloseRedisConnection(c) ==
    /\ gpc[c] = "idle"
    /\ gloc[c].n < MaxGets
    /\ gloc' = [gloc EXCEPT ![c] = [NoGet EXCEPT !.n = gloc[c].n + 1,
                                                 !.mine = redisClient]]
    /\ gpc' = [gpc EXCEPT ![c] = IF redisClient = NoClient THEN "idle" ELSE "quit"]
    /\ UNCHANGED <<redisClient, conns, tokens>>

\* closeRedisConnection after await redisClient.quit(): the QUIT of a client
\* that is connecting waits for the connection; on a connected client it
\* closes it and redisClient = null follows; on a client that is not
\* connected quit() rejects and the assignment is skipped.
CloseResume(c) ==
    /\ gpc[c] = "quit"
    /\ conns[gloc[c].mine] # "connecting"
    /\ gpc' = [gpc EXCEPT ![c] = "idle"]
    /\ IF conns[gloc[c].mine] = "ready"
       THEN /\ conns' = [conns EXCEPT ![gloc[c].mine] = "closed"]
            /\ redisClient' = NoClient
            /\ gloc' = [gloc EXCEPT ![c].res = "closed"]
       ELSE /\ gloc' = [gloc EXCEPT ![c].res = "throw"]
            /\ UNCHANGED <<redisClient, conns>>
    /\ UNCHANGED tokens

\* Callers of the client module on the one event loop: each action is one
\* run of a caller between two awaits, or one settling of a connect().
NextClient ==
    \/ \E c \in Callers : GetRedisClient(c)
    \/ \E i \in 1..MaxClients, ok \in BOOLEAN : ConnectSettles(i, ok)
    \/ \E c \in Callers : GetResume(c)
    \/ \E c \in Callers : CloseRedisConnection(c)
    \/ \E c \in Callers : CloseResume(c)

SpecClient == Init /\ [][NextClient]_vars

\* ------------------------------------------------- the concurrent service
\* The store steps of the token handlers.
StepIssue(p) ==
    \/ IssSetRec(p)
    \/ IssSetPtr(p)
    \/ IssSAdd(p)

StepRotate(p) ==
    \/ RotExpDel(p)
    \/ RotGet(p)
    \/ RotDel(p)
    \/ RotSetRec(p)
    \/ RotSetPtr(p)

StepRevoke(p) ==
    \/ RvGetPtr(p)
    \/ RvDelRec(p)
    \/ RvDelPtr(p)
    \/ RvKeys(p)
    \/ RvSRem(p)

StepRevokeAll(p) ==
    \/ RaMembers(p)
    \/ RaDel(p)

StepAuth(p) ==
    \/ AuIsBl(p)
    \/ AuUser(p)
    \/ BlSetEx(p)

StepSessions(p) ==
    \/ GsMembers(p)
    \/ GsGetPtr(p)
    \/ GsGetRec(p)

StepCleanup(p) ==
    \/ ClKeys(p)
    \/ ClMembers(p)
    \/ ClExists(p)
    \/ ClSRem(p)

\* Issuance, rotation and revocation requests, served by two workers whose
\* store calls interleave freely.
Next ==
    \/ Tick
    \/ \E p \in Procs : StepIssue(p)
    \/ \E p \in Procs : StepRotate(p)
    \/ \E p \in Procs : StepRevoke(p)
    \/ \E p \in Procs : StepRevokeAll(p)
    \/ \E p \in Procs : \E u \in Users : calls < MaxCalls /\ StartIssue(p, u, "")
    \/ \E p \in Procs : \E t \in Presentable : calls < MaxCalls /\ StartRotate(p, t, "")
    \/ \E p \in Procs : \E f \in Fams : calls < MaxCalls /\ StartRevokeFamily(p, f)
    \/ \E p \in Procs : \E u \in Users : calls < MaxCalls /\ StartRevokeAll(p, u)

Spec == Init /\ [][Next]_vars

\* Every handler, one request at a time: a single worker serves them all.
NextSeq ==
    \/ Tick
    \/ StepIssue("p1")
    \/ StepRotate("p1")
    \/ StepRevoke("p1")
    \/ StepRevokeAll("p1")
    \/ StepAuth("p1")
    \/ StepCleanup("p1")
    \/ StepSessions("p1")
    \/ \E u \in Users, ua \in Agents : calls < SeqCalls /\ StartIssue("p1", u, ua)
    \/ \E t \in Presentable, ua \in Agents : calls < SeqCalls /\ StartRotate("p1", t, ua)
    \/ \E f \in Fams : calls < SeqCalls /\ StartRevokeFamily("p1", f)
    \/ \E u \in Users : calls < SeqCalls /\ StartRevokeAll("p1", u)
    \/ \E t \in clientA \cup {Garbage} : calls < SeqCalls /\ StartBlacklist("p1", t)
    \/ \E t \in clientA \cup {Garbage}, r \in {"Auth", "Logout"} :
          calls < SeqCalls /\ StartAuth("p1", t, r)
    \/ calls < SeqCalls /\ StartCleanup("p1")
    \/ \E u \in Users : calls < SeqCalls /\ StartGetSessions("p1", u)

SpecSeq == Init /\ [][NextSeq]_vars

\* Logins, logouts and authenticated requests served by two workers over a
\* store whose calls can reject.
NextFail ==
    \/ Tick
    \/ \E p \in Procs : StepIssue(p)
    \/ \E p \in Procs : StepAuth(p)
    \/ \E p \in Procs : StoreFail(p)
    \/ \E p \in Procs : calls < MaxCalls /\ StartIssue(p, "u1", "")
    \/ \E p \in Procs : \E t \in clientA \cup {Garbage} :
          calls < MaxCalls /\ StartBlacklist(p, t)
    \/ \E p \in Procs : \E t \in clientA \cup {Garbage}, r \in {"Auth", "Logout"} :
          calls < MaxCalls /\ StartAuth(p, t, r)

SpecFail == Init /\ [][NextFail]_vars

\* The cleanup job's sweep running beside logins, rotations and revocations:
\* two workers, either of which can be the one the interval timer starts.  A
\* session is revoked by a client that holds one of its tokens.
NextSweep ==
    \/ Tick
    \/ \E p \in Procs : StepIssue(p)
    \/ \E p \in Procs : StepRotate(p)
    \/ \E p \in Procs : StepRevoke(p)
    \/ \E p \in Procs : StepCleanup(p)
    \/ \E p \in Procs : calls < MaxCalls /\ StartIssue(p, "u1", "")
    \/ \E p \in Procs : \E t \in clientR : calls < MaxCalls /\ StartRotate(p, t, "")
    \/ \E p \in Procs : \E f \in {t.fam : t \in clientR} :
          calls < MaxCalls /\ StartRevokeFamily(p, f)
    \/ \E p \in Procs : calls < MaxCalls /\ StartCleanup(p)

SpecSweep == Init /\ [][NextSweep]_vars

\* Logins and registrations on two workers.
NextReg ==
    \/ Tick
    \/ \E p \in Procs : StepIssue(p)
    \/ \E p \in Procs : RegCreate(p)
    \/ \E p \in Procs : \E u \in Users : calls < MaxCalls /\ StartIssue(p, u, "")
    \/ \E p \in Procs :
          \E t \in clientA \cup {NoTok}, u \in Registrants, r \in Roles :
             calls < MaxCalls /\ StartRegister(p, t, u, r)

SpecReg == Init /\ [][NextReg]_vars

\* Logins, rotations and revocations, one request at a time, over a store
\* whose calls can reject; the caller can repeat a request that failed.
NextRetry ==
    \/ Tick
    \/ StepIssue("p1")
    \/ StepRotate("p1")
    \/ StepRevoke("p1")
    \/ StepRevokeAll("p1")
    \/ StoreFail("p1")
    \/ \E u \in Users : calls < SeqCalls /\ StartIssue("p1", u, "")
    \/ \E t \in clientR : calls < SeqCalls /\ StartRotate("p1", t, "")
    \/ \E f \in Fams : calls < SeqCalls /\ StartRevokeFamily("p1", f)
    \/ \E u \in Users : calls < SeqCalls /\ StartRevokeAll("p1", u)

SpecRetry == Init /\ [][NextRetry]_vars

\* Logins and session-revoke requests, one request at a time.
NextSession ==
    \/ Tick
    \/ StepIssue("p1")
    \/ AuIsBl("p1")
    \/ AuUser("p1")
    \/ StepRevoke("p1")
    \/ \E u \in Users : calls < SeqCalls /\ StartIssue("p1", u, "")
    \/ \E t \in clientA, f \in Fams \cup {NoFam} :
          calls < SeqCalls /\ StartRevokeSession("p1", t, f)

SpecSession == Init /\ [][NextSession]_vars

\* ================================================================ claims
\* A step of worker p, and worker p's handler returning (or throwing).
StepOf(p) == pc'[p] # pc[p] \/ loc'[p] # loc[p]
Returns(p) == pc[p] # "idle" /\ pc'[p] = "idle"
Finished(p, op) == pc[p] = "idle" /\ loc[p].op = op

\* The refresh records of family f.
RecordsOf(f) == {t \in DOMAIN refreshRec : refreshRec[t].tokenFamily = f}

\* C1: in every reachable state, under any interleaving of IssueTokens,
\* Rotate, RevokeFamily and RevokeAllForUser store steps, the store holds at
\* most one Refresh Token Record of each tokenFamily.
C1_AtMostOneRecordPerFamily ==
    \A f \in Fams : Cardinality(RecordsOf(f)) <= 1

\* C2: after a Rotate(r) that returned a pair, a later Rotate(r) fails with
\* SecurityBreach and never returns a pair, and the user's session list then
\* holds no entry for r's tokenFamily.  (A later call that finds r expired
\* is left out: it ends as TokenExpired before any lookup.)
C2_ReplayIsBreach ==
    \A p \in Procs :
        (Finished(p, "Rotate") /\ loc[p].later /\ loc[p].res # "TokenExpiredError")
            => /\ loc[p].res = "SecurityBreach"
               /\ loc[p].tok.fam \notin SessionFamilies(loc[p].tok.sub)

\* C3: when a Rotate call fails with SecurityBreach for a token of family f,
\* the family is gone: its Token Family Pointer is absent and no Refresh Token
\* Record of f is left, so no token of f, the current one included, can be
\* exchanged by a following Rotate.
C3_BreachKillsFamily ==
    [][\A p \in Procs :
          (Returns(p) /\ loc'[p].op = "Rotate" /\ loc'[p].res = "SecurityBreach")
              => /\ loc[p].fam \notin DOMAIN familyPtr'
                 /\ \A t \in DOMAIN refreshRec' :
                       refreshRec'[t].tokenFamily # loc[p].fam]_vars

\* C4: two Rotate calls that present the same refresh token and both read its
\* record before either deletes it both return a new pair, and none raises
\* SecurityBreach: a Rotate call that has read its record present always
\* returns a pair.
C4_SeenRecordReturnsPair ==
    \A p \in Procs :
        /\ (Finished(p, "Rotate") /\ loc[p].saw) => loc[p].res = "pair"
        /\ (loc[p].op = "Rotate" /\ loc[p].saw /\ pc[p] # "idle")
              => pc[p] \in {"rot_del", "rot_setRec", "rot_setPtr"}

\* Both workers have returned a pair for the same presented token, the second
\* reader having found the record while the first had not yet deleted it.
C4_BothRacersGotPairs ==
    \E p \in Procs : \E q \in Procs \ {p} :
        /\ Finished(p, "Rotate") /\ Finished(q, "Rotate")
        /\ loc[p].tok = loc[q].tok
        /\ loc[p].res = "pair" /\ loc[q].res = "pair"
        /\ loc[p].saw /\ loc[q].saw /\ loc[q].raced

\* C10: Rotate on a token with a bad signature, or (validly signed and
\* unexpired) with a type other than 'refresh', fails at once with an
\* InvalidToken error and changes nothing in the store; Rotate on a validly
\* signed expired token fails with the distinct TokenExpired error after one
\* delete of the record keyed by that token, which is absent on return; no
\* pair is returned, no family pointer or session index is touched.
BadSignature(t) == t.kind \notin {"refresh", "wrongtype"}
PastExpiry(t) == now >= t.iat + RefreshLife

C10_InvalidAndExpiredRotate ==
    [][\A p \in Procs :
          /\ (pc[p] = "idle" /\ StepOf(p) /\ loc'[p].op = "Rotate") =>
                LET t == loc'[p].tok
                IN /\ BadSignature(t) =>
                         /\ pc'[p] = "idle"
                         /\ loc'[p].res = "JsonWebTokenError"
                   /\ (~BadSignature(t) /\ ~PastExpiry(t) /\ t.kind # "refresh") =>
                         /\ pc'[p] = "idle"
                         /\ loc'[p].res = "InvalidTokenType"
                   /\ (~BadSignature(t) /\ PastExpiry(t)) => pc'[p] = "rot_expDel"
                   /\ store' = store
          /\ (pc[p] = "rot_expDel" /\ StepOf(p)) =>
                /\ pc'[p] = "idle"
                /\ loc'[p].res = "TokenExpiredError"
                /\ loc[p].tok \notin DOMAIN refreshRec'
                /\ refreshRec' = DelKey(refreshRec, loc[p].tok)
                /\ familyPtr' = familyPtr
                /\ userSessions' = userSessions
                /\ blacklist' = blacklist]_vars

\* An expired token whose record was still stored has been presented and
\* answered TokenExpired, and a token that fails verification has been
\* answered with an InvalidToken error.
C10_ExpiredAndInvalidSeen ==
    \E p \in Procs : \E q \in Procs :
        /\ Finished(p, "Rotate") /\ loc[p].res = "TokenExpiredError" /\ loc[p].stale
        /\ Finished(q, "Rotate")
        /\ loc[q].res \in {"JsonWebTokenError", "InvalidTokenType"}

\* C5: once BlacklistAccessToken(t) has completed for a validly signed,
\* unexpired access token t, every later presentation of t to requireAuth is
\* rejected: next() is never called for it.
C5_BlacklistedIsRejected ==
    \A p \in Procs :
        (loc[p].op \in {"Auth", "Logout"} /\ loc[p].later) => ~loc[p].passed

\* C6: a handler one of whose store calls failed reports the failure to its
\* caller and does not complete as a success; BlacklistAccessToken and the
\* logout route never answer success when the blacklist entry of a valid
\* unexpired token could not be written.
C6_StoreFailureIsReported ==
    \A p \in Procs :
        (pc[p] = "idle" /\ loc[p].failed)
            => loc[p].res \in {"StoreError", "500:Authentication error"}

\* C7 (as claimed): logging out a session removes that session's tokenFamily
\* from the user's User Session Index (stated for a logout that has written
\* its blacklist entry).
C7_LogoutShrinksIndex ==
    \A p \in Procs :
        (/\ Finished(p, "Logout") /\ loc[p].res = "200:LoggedOut"
         /\ loc[p].tok \in DOMAIN blacklist)
            => loc[p].tok.fam \notin userSessions[loc[p].tok.sub]

\* C7 (amended): logging out leaves every User Session Index unchanged, as
\* do blacklisting and requireAuth; the index of the user gains the new
\* family on each IssueTokens, and an index loses members only in a step of
\* revocation (RevokeFamily, RevokeAllForUser, the reuse path of Rotate) or
\* of the cleanup sweep.
C7_IndexGrowsOnLoginShrinksOnRevocation ==
    [][\A p \in Procs : StepOf(p) =>
          /\ loc'[p].op \in {"Logout", "Blacklist", "Auth"}
                => userSessions' = userSessions
          /\ pc[p] = "iss_sAdd" =>
                /\ loc[p].fam \notin userSessions[loc[p].user]
                /\ userSessions' = [userSessions EXCEPT
                                       ![loc[p].user] = @ \cup {loc[p].fam}]
          /\ \A u \in Users :
                (userSessions'[u] # userSessions[u] /\ pc[p] # "iss_sAdd") =>
                    /\ userSessions'[u] \subseteq userSessions[u]
                    /\ loc[p].op \in {"RevokeFamily", "RevokeAll", "Rotate", "Cleanup"}
      ]_vars

\* A logout has answered 200 with its blacklist entry written while the
\* session's family is still a member of the user's index.
C7_LoggedOutStillIndexed ==
    \E p \in Procs :
        /\ Finished(p, "Logout") /\ loc[p].res = "200:LoggedOut"
        /\ loc[p].tok \in DOMAIN blacklist
        /\ loc[p].tok.fam \in userSessions[loc[p].tok.sub]

\* C8: when POST /refresh answers TOKEN_REUSE_DETECTED for a token of user u,
\* all sessions of u have been terminated: GetUserSessions(u) is empty and no
\* refresh token of u is exchangeable.
C8_ReuseTerminatesAllSessions ==
    \A p \in Procs :
        (/\ Finished(p, "Rotate")
         /\ RefreshAnswer(loc[p].res) = "401:TOKEN_REUSE_DETECTED"
         /\ loc[p].tok.fam # NoFam)
            => /\ SessionEntries(loc[p].tok.sub) = {}
               /\ \A t \in DOMAIN refreshRec :
                     refreshRec[t].userId # loc[p].tok.sub

\* C9: a RevokeFamily(f) call that directly follows a RevokeFamily(f) call
\* changes nothing in the store in any of its steps and returns without error,
\* whether f was live, already revoked or never issued at the first call.
C9_SecondRevokeChangesNothing ==
    [][\A p \in Procs :
          (StepOf(p) /\ loc'[p].op = "RevokeFamily" /\ loc'[p].again # "no") =>
              /\ store' = store
              /\ pc'[p] = "idle" => loc'[p].res = "ok"]_vars

\* The second of two consecutive RevokeFamily(f) calls has returned, the
\* first having found f's pointer.
C9_RevokedTwice ==
    \E p \in Procs :
        /\ Finished(p, "RevokeFamily")
        /\ loc[p].again = "live"
        /\ loc[p].res = "ok"

\* C11: a refresh request whose refresh token is malformed, badly signed or
\* expired is answered 401 with the error text 'Invalid refresh token', the
\* same answer for the malformed and the expired token.
C11_InvalidRefreshAnswer ==
    \A p \in Procs :
        (/\ Finished(p, "Rotate")
         /\ loc[p].res \in {"JsonWebTokenError", "TokenExpiredError"})
            => RefreshAnswer(loc[p].res) = "401:Invalid refresh token"

\* C12: the step on which IssueTokens returns its pair (a call shorter than
\* the 7-day TTL of what it wrote) hands out an access and a refresh token
\* of one tokenFamily that no token handed out before carries, and leaves a
\* record keyed by the returned refresh token, the family's pointer naming
\* that token, and the family in the user's session set.
C12_IssueLeavesSession ==
    [][\A p \in Procs :
        (/\ Returns(p) /\ loc[p].op = "Issue" /\ loc'[p].res = "pair"
         /\ now - loc[p].data.createdAt < RecordTTL)
            => LET r == loc[p].newTok
                   a == loc[p].newAcc
               IN /\ r \in clientR' /\ a \in clientA'
                  /\ r.fam = a.fam /\ r.fam # NoFam
                  /\ \A t \in clientR \cup clientA : t.fam # r.fam
                  /\ r \in DOMAIN refreshRec'
                  /\ refreshRec'[r].tokenFamily = r.fam
                  /\ r.fam \in DOMAIN familyPtr'
                  /\ familyPtr'[r.fam].tok = r
                  /\ r.fam \in userSessions'[loc[p].user]]_vars

\* An IssueTokens call has returned and its session is in the store.
C12_IssuedSessionStored ==
    \E p \in Procs :
        /\ Finished(p, "Issue") /\ loc[p].res = "pair"
        /\ loc[p].fam \in userSessions[loc[p].user]
        /\ loc[p].fam \in DOMAIN familyPtr
        /\ familyPtr[loc[p].fam].tok \in DOMAIN refreshRec
        /\ familyPtr[loc[p].fam].tok \in clientR

\* C13: a rotation keeps the session's identity.  The tokens it signs and
\* the RefreshTokenData it builds carry the tokenFamily, userId and createdAt
\* of the record it read, lastUsedAt does not decrease, userAgent changes
\* only to a non-empty value the request supplied; the record it writes is
\* that data; and every stored record carries the tokenFamily and userId of
\* the token that keys it, with createdAt <= lastUsedAt.
C13_RotationKeepsIdentity ==
    [][/\ \A p \in Procs :
            (pc[p] = "rot_del" /\ pc'[p] = "rot_setRec")
                => LET old == loc[p].data
                       new == loc'[p].data
                   IN /\ new.tokenFamily = old.tokenFamily
                      /\ new.userId = old.userId
                      /\ new.createdAt = old.createdAt
                      /\ new.lastUsedAt >= old.lastUsedAt
                      /\ new.userAgent = (IF loc[p].ua # "" THEN loc[p].ua
                                          ELSE old.userAgent)
                      /\ loc'[p].newTok.fam = old.tokenFamily
                      /\ loc'[p].newAcc.fam = old.tokenFamily
                      /\ loc'[p].newTok.sub = old.userId
                      /\ loc'[p].newAcc.sub = old.userId
       /\ \A p \in Procs :
            (pc[p] = "rot_setRec" /\ pc'[p] = "rot_setPtr")
                => refreshRec'[loc[p].newTok] =
                       [loc[p].data EXCEPT !.exp = refreshRec'[loc[p].newTok].exp]
       /\ \A t \in DOMAIN refreshRec' :
            /\ refreshRec'[t].tokenFamily = t.fam
            /\ refreshRec'[t].userId = t.sub
            /\ refreshRec'[t].createdAt <= refreshRec'[t].lastUsedAt]_vars

\* A rotation that supplied a user agent has returned its pair, and the
\* family's record keeps the login's createdAt with a later lastUsedAt.
C13_RotatedWithNewAgent ==
    \E p \in Procs :
        /\ Finished(p, "Rotate") /\ loc[p].res = "pair"
        /\ loc[p].fam \in DOMAIN familyPtr
        /\ familyPtr[loc[p].fam].tok \in DOMAIN refreshRec
        /\ LET d == refreshRec[familyPtr[loc[p].fam].tok]
           IN /\ d.createdAt < d.lastUsedAt
              /\ d.userAgent = "ua1"
              /\ d.createdAt = loc[p].tok.iat

\* C14: blacklistAccessToken writes its entry with TTL exp - now, the whole
\* seconds the token has left when the TTL is computed, and only when that
\* is > 0; a token that fails verification or has expired gets no entry, and
\* nothing else writes to the blacklist.
C14_BlacklistTTLIsRemainingLife ==
    [][/\ \A p \in Procs :
            (pc[p] # "bl_setEx" /\ pc'[p] = "bl_setEx")
                => /\ VerifyAccess(loc'[p].tok, now) = "ok"
                   /\ loc'[p].ttl = Exp(loc'[p].tok) - now
                   /\ loc'[p].ttl > 0
       /\ \A p \in Procs :
            (/\ loc'[p].op \in {"Blacklist", "Logout"} /\ StepOf(p)
             /\ pc[p] # "bl_setEx")
                => blacklist' = blacklist
       /\ (now' = now /\ blacklist' # blacklist)
            => \E p \in Procs :
                  /\ pc[p] = "bl_setEx"
                  /\ blacklist' = SetKey(blacklist, loc[p].tok,
                                         [exp |-> now + loc[p].ttl])]_vars

\* A token was blacklisted a second after it was signed: the entry's TTL is
\* the second it had left, not its lifetime.
C14_PartialTTLWritten ==
    \E p \in Procs :
        /\ Finished(p, "Blacklist")
        /\ loc[p].tok \in DOMAIN blacklist
        /\ loc[p].ttl = AccessLife - 1
        /\ blacklist[loc[p].tok].exp = Exp(loc[p].tok)

\* C15: a step of blacklistAccessToken(t), called directly or by logout,
\* leaves the blacklist status of every other access token as it was,
\* tokens of t's own login and family included.
C15_BlacklistTouchesOneToken ==
    [][\A p \in Procs :
        (loc'[p].op \in {"Blacklist", "Logout"} /\ StepOf(p))
            => \A t \in (clientA \cup DOMAIN blacklist \cup DOMAIN blacklist')
                          \ {loc'[p].tok} :
                  (t \in DOMAIN blacklist') = (t \in DOMAIN blacklist)]_vars

\* A token has been blacklisted while another access token of its family,
\* still unexpired, is not.
C15_SiblingNotBlacklisted ==
    \E p \in Procs :
        /\ Finished(p, "Blacklist")
        /\ loc[p].tok \in DOMAIN blacklist
        /\ \E t \in clientA :
              /\ t # loc[p].tok /\ t.fam = loc[p].tok.fam
              /\ VerifyAccess(t, now) = "ok"
              /\ t \notin DOMAIN blacklist

\* C16: under any interleaving of a sweep with IssueTokens, Rotate,
\* RevokeFamily and TTL expiry, the sweeper's sRem never removes from a
\* session set a family whose pointer exists at the moment of the removal.
C16_SweepSparesLiveFamilies ==
    [][\A p \in Procs :
        (pc[p] = "cl_sRem" /\ userSessions' # userSessions)
            => loc[p].fam \notin DOMAIN familyPtr]_vars

\* C17: when a sweep that ran alone (one request at a time, no second
\* passing while it ran) returns, every member of every user's session set
\* has a pointer; and no step of the sweep removes a member whose pointer
\* exists.
C17_SweepLeavesOnlyLiveMembers ==
    [][\A p \in Procs :
        /\ (Returns(p) /\ loc[p].op = "Cleanup" /\ loc[p].at = now')
              => \A u \in Users : userSessions'[u] \subseteq DOMAIN familyPtr'
        /\ (loc[p].op = "Cleanup" /\ StepOf(p))
              => \A u \in Users :
                    userSessions[u] \cap DOMAIN familyPtr \subseteq userSessions'[u]]_vars

\* A sweep that ran within one second has returned after removing a
\* dangling member, and a family with a live pointer is still a member.
C17_SweptDanglingKeptLive ==
    \E p \in Procs :
        /\ Finished(p, "Cleanup") /\ loc[p].res = "ok"
        /\ loc[p].swept /\ loc[p].at = now
        /\ \E u \in Users : userSessions[u] \cap DOMAIN familyPtr # {}

\* C18: getUserSessions(u), run with no second passing meanwhile, returns
\* without error a list holding exactly one entry, with the record's
\* metadata, for each member of u's session set whose pointer and pointed-to
\* record both exist, nothing for any other family, ordered by lastUsedAt
\* non-increasing.
C18_SessionsListLiveFamilies ==
    [][\A p \in Procs :
        (Returns(p) /\ loc[p].op = "GetSessions" /\ loc[p].at = now')
            => LET out == loc'[p].sessions
               IN /\ loc'[p].res = "ok"
                  /\ {out[i] : i \in 1..Len(out)} = SessionEntries(loc[p].user)
                  /\ Len(out) = Cardinality(SessionFamilies(loc[p].user))
                  /\ \A i \in 1..Len(out) - 1 :
                        out[i].lastUsedAt >= out[i + 1].lastUsedAt]_vars

\* getUserSessions has returned two sessions last used at different times.
C18_TwoSessionsListed ==
    \E p \in Procs :
        /\ Finished(p, "GetSessions") /\ loc[p].res = "ok"
        /\ Len(loc[p].sessions) = 2
        /\ loc[p].sessions[1].lastUsedAt > loc[p].sessions[2].lastUsedAt

\* C19: POST /register creates a user only for a requester authenticated as
\* an admin: no step of a registration whose request carried a collector's
\* token creates a user or hands out a token, and the request is answered
\* 403.
C19_RegisterNeedsAdmin ==
    [][\A p \in Procs :
        (/\ loc[p].op = "Register" /\ StepOf(p)
         /\ loc[p].tok.kind = "access"
         /\ accounts[loc[p].tok.sub] = "collector")
            => /\ accounts' = accounts
               /\ clientR' = clientR /\ clientA' = clientA
               /\ Returns(p) => RegisterAnswer(loc'[p].res) = "403:Forbidden"]_vars

\* C20: once RevokeFamily(f) has returned, for a family f that a client
\* holds a token of, the store has no pointer for f, no refresh record of
\* family f and no session set containing f, whatever Rotate calls on f's
\* tokens ran beside it.
C20_RevokedFamilyStaysDead ==
    \A p \in Procs :
        (Finished(p, "RevokeFamily") /\ loc[p].res = "ok" /\ loc[p].later)
            => /\ loc[p].fam \notin DOMAIN familyPtr
               /\ RecordsOf(loc[p].fam) = {}
               /\ \A u \in DOMAIN userSessions : loc[p].fam \notin userSessions[u]

\* C21: a Rotate that a store failure interrupts leaves no half-applied
\* state: when the failure comes after the presented record was deleted,
\* the replacement record and the pointer naming it are in the store.
C21_FailedRotateIsAtomic ==
    [][\A p \in Procs :
        (/\ Returns(p) /\ loc[p].op = "Rotate" /\ loc'[p].failed
         /\ pc[p] \in {"rot_setRec", "rot_setPtr"})
            => /\ loc[p].newTok \in DOMAIN refreshRec'
               /\ loc[p].fam \in DOMAIN familyPtr'
               /\ familyPtr'[loc[p].fam].tok = loc[p].newTok]_vars

\* What one uninterrupted revokeTokenFamily(f), and one uninterrupted
\* revokeAllUserTokens(u), make of the store st = <<records, pointers,
\* session sets>>, and what is left of a store at a later time.
AfterRevokeFamily(st, f) ==
    <<IF f \in DOMAIN st[2] THEN DelKey(st[1], st[2][f].tok) ELSE st[1],
      DelKey(st[2], f),
      [u \in DOMAIN st[3] |-> st[3][u] \ {f}]>>

AfterRevokeAll(st, u) ==
    LET fams == st[3][u]
        named == {st[2][f].tok : f \in fams \cap DOMAIN st[2]}
    IN <<[t \in DOMAIN st[1] \ named |-> st[1][t]],
         [f \in DOMAIN st[2] \ fams |-> st[2][f]],
         [x \in DOMAIN st[3] |-> IF x = u THEN {} ELSE st[3][x] \ fams]>>

\* C22: when RevokeFamily(f) or RevokeAllForUser(u), interrupted by a store
\* failure after any prefix of its store calls, is repeated by the caller
\* until it completes, with no other request in between (and before any
\* entry's TTL runs out), the store is what a single uninterrupted call on
\* the first request's store leaves.
C22_RetriedRevocationEqualsOneCall ==
    \A p \in Procs :
        /\ (Finished(p, "RevokeFamily") /\ loc[p].res = "ok" /\ loc[p].snap.at = now)
              => <<refreshRec, familyPtr, userSessions>> =
                    AfterRevokeFamily(loc[p].snap.first, loc[p].fam)
        /\ (Finished(p, "RevokeAll") /\ loc[p].res = "ok" /\ loc[p].snap.at = now)
              => <<refreshRec, familyPtr, userSessions>> =
                    AfterRevokeAll(loc[p].snap.first, loc[p].user)

\* A RevokeAllForUser that failed part-way (it had changed the store) was
\* repeated and has completed, having changed the store again.
C22_RetriedAfterPartialRevoke ==
    \E p \in Procs :
        /\ Finished(p, "RevokeAll") /\ loc[p].res = "ok"
        /\ loc[p].again = "retry" /\ loc[p].snap.at = now
        /\ loc[p].snap.start # loc[p].snap.first
        /\ <<refreshRec, familyPtr, userSessions>> # loc[p].snap.start

\* C23: when RevokeAllForUser(u) has completed, run alone (no other request,
\* no TTL running out meanwhile), u's session set does not exist, every
\* family that was a member has no pointer and the record its pointer named
\* is gone, and the pointers and records of the families that were not
\* members are as they were.
C23_RevokeAllClearsOnlyThatUser ==
    \A p \in Procs :
        (/\ Finished(p, "RevokeAll") /\ loc[p].res = "ok"
         /\ loc[p].again = "no" /\ loc[p].snap.at = now)
            => LET rec0 == loc[p].snap.first[1]
                   ptr0 == loc[p].snap.first[2]
                   mine == loc[p].snap.first[3][loc[p].user]
               IN /\ userSessions[loc[p].user] = {}
                  /\ \A f \in mine :
                        /\ f \notin DOMAIN familyPtr
                        /\ f \in DOMAIN ptr0 => ptr0[f].tok \notin DOMAIN refreshRec
                  /\ \A f \in DOMAIN ptr0 \ mine :
                        /\ f \in DOMAIN familyPtr /\ familyPtr[f] = ptr0[f]
                        /\ ptr0[f].tok \in DOMAIN rec0
                              => /\ ptr0[f].tok \in DOMAIN refreshRec
                                 /\ refreshRec[ptr0[f].tok] = rec0[ptr0[f].tok]
                  /\ \A u \in DOMAIN userSessions \ {loc[p].user} :
                        userSessions[u] = loc[p].snap.first[3][u] \ mine

\* RevokeAllForUser(u) has completed for a user who had a live session while
\* another user's session is still there.
C23_OneUserRevokedOtherKept ==
    \E p \in Procs :
        /\ Finished(p, "RevokeAll") /\ loc[p].res = "ok"
        /\ loc[p].again = "no" /\ loc[p].snap.at = now
        /\ loc[p].snap.first[3][loc[p].user] \cap DOMAIN loc[p].snap.first[2] # {}
        /\ \E u \in Users \ {loc[p].user} :
              \E f \in userSessions[u] :
                 f \in DOMAIN familyPtr /\ familyPtr[f].tok \in DOMAIN refreshRec

\* C24: the store steps of a Rotate come in the order read the record,
\* delete the record, write the new record, write the pointer: the delete
\* follows a read that found the record, each write follows the delete, the
\* pair is returned by the pointer write, and a Rotate whose read found the
\* record missing adds or overwrites no record and no pointer.
C24_RotateStoreOrder ==
    [][\A p \in Procs :
        (StepOf(p) /\ loc'[p].op = "Rotate") =>
            /\ pc'[p] = "rot_del"
                  => /\ pc[p] = "rot_get"
                     /\ loc[p].tok \in DOMAIN refreshRec
                     /\ store' = store
            /\ pc'[p] = "rot_setRec"
                  => /\ pc[p] = "rot_del"
                     /\ loc[p].tok \notin DOMAIN refreshRec'
                     /\ familyPtr' = familyPtr
            /\ pc'[p] = "rot_setPtr"
                  => /\ pc[p] = "rot_setRec"
                     /\ loc[p].newTok \in DOMAIN refreshRec'
                     /\ familyPtr' = familyPtr
            /\ (Returns(p) /\ loc'[p].res = "pair")
                  => /\ pc[p] = "rot_setPtr"
                     /\ familyPtr'[loc[p].fam].tok = loc[p].newTok
                     /\ refreshRec' = refreshRec
            /\ ~loc'[p].saw
                  => /\ \A t \in DOMAIN refreshRec' :
                           t \in DOMAIN refreshRec /\ refreshRec'[t] = refreshRec[t]
                     /\ \A f \in DOMAIN familyPtr' :
                           f \in DOMAIN familyPtr /\ familyPtr'[f] = familyPtr[f]]_vars

\* One Rotate has returned a pair after its four store steps and another
\* has ended on a missing record.
C24_RotatedAndRefused ==
    /\ \E p \in Procs :
          /\ Finished(p, "Rotate") /\ loc[p].res = "pair" /\ loc[p].saw
          /\ loc[p].fam \in DOMAIN familyPtr
    /\ \E p \in Procs :
          Finished(p, "Rotate") /\ ~loc[p].saw /\ loc[p].res = "SecurityBreach"

\* C25: a Rotate(r) that returns a pair returns a refresh token other than
\* r, and when it returns no record is stored under r.
C25_RotateReturnsNewToken ==
    [][\A p \in Procs :
        (Returns(p) /\ loc'[p].op = "Rotate" /\ loc'[p].res = "pair")
            => /\ loc[p].newTok # loc[p].tok
               /\ loc[p].tok \notin DOMAIN refreshRec']_vars

\* C26: in every state with no operation in flight, every pointer that
\* exists names a stored record of the same family, and that family is a
\* member of the session set of the record's userId, whatever interleaving
\* of IssueTokens, Rotate, RevokeFamily and RevokeAllForUser led there.
\* Stated for the states in which no TTL can have run out yet.
C26_QuiescentPointersAreBacked ==
    (now < RecordTTL /\ \A p \in Procs : pc[p] = "idle")
        => \A f \in DOMAIN familyPtr :
              /\ familyPtr[f].tok \in DOMAIN refreshRec
              /\ refreshRec[familyPtr[f].tok].tokenFamily = f
              /\ f \in userSessions[refreshRec[familyPtr[f].tok].userId]

\* C27: a session-revoke request of authenticated user A, whatever
\* tokenFamily it submits, changes only families of A: when it has been
\* answered (no TTL having run out meanwhile), every family that was in the
\* session set of another user B is still there, and its pointer and the
\* record the pointer named are as they were.
C27_RevokeSessionTouchesOwnFamilies ==
    \A p \in Procs :
        (/\ Finished(p, "RevokeSession") /\ loc[p].passed
         /\ loc[p].snap.at = now)
            => LET rec0 == loc[p].snap.first[1]
                   ptr0 == loc[p].snap.first[2]
                   idx0 == loc[p].snap.first[3]
               IN \A b \in Users \ {loc[p].user} : \A f \in idx0[b] :
                     /\ f \in userSessions[b]
                     /\ f \in DOMAIN ptr0
                           => /\ f \in DOMAIN familyPtr /\ familyPtr[f] = ptr0[f]
                              /\ ptr0[f].tok \in DOMAIN rec0
                                    => /\ ptr0[f].tok \in DOMAIN refreshRec
                                       /\ refreshRec[ptr0[f].tok] = rec0[ptr0[f].tok]

\* C28: every step of a logout (requireAuth, then blacklistAccessToken) and
\* of a direct blacklistAccessToken leaves every refresh record, every
\* family pointer and every session set unchanged, so the refresh token of
\* the login stays exchangeable and the session stays listed.
C28_LogoutLeavesSessionStore ==
    [][\A p \in Procs :
        (StepOf(p) /\ loc'[p].op \in {"Logout", "Blacklist"})
            => /\ refreshRec' = refreshRec
               /\ familyPtr' = familyPtr
               /\ userSessions' = userSessions]_vars

\* After a logout wrote the blacklist entry of a login's access token, the
\* refresh token of that login has been exchanged by Rotate and the family
\* is still a member of the user's session set.
C28_RotatedAfterLogout ==
    \E p \in Procs :
        /\ Finished(p, "Rotate") /\ loc[p].res = "pair"
        /\ loc[p].fam \in userSessions[loc[p].user]
        /\ \E a \in blDone :
              /\ a \in DOMAIN blacklist
              /\ a.fam = loc[p].fam /\ a.iat = loc[p].tok.iat

\* C29: no step of RevokeFamily, of RevokeAllForUser or of Rotate (its
\* reuse path included) creates or deletes a blacklist entry, and
\* requireAuth lets through the blacklist check every unexpired access
\* token that was not explicitly blacklisted, whatever became of its family.
C29_RevocationLeavesBlacklist ==
    [][\A p \in Procs : StepOf(p) =>
          /\ loc'[p].op \in {"RevokeFamily", "RevokeAll", "Rotate"}
                => blacklist' = blacklist
          /\ (/\ pc[p] = "au_isBl"
              /\ loc[p].tok \notin blDone
              /\ VerifyAccess(loc[p].tok, now) = "ok")
                => pc'[p] = "au_user"]_vars

\* requireAuth has passed an unexpired access token whose family had been
\* revoked: its pointer, which no TTL can have removed yet, is gone, and the
\* family is in no session set.
C29_RevokedFamilyTokenPassed ==
    \E p \in Procs :
        /\ Finished(p, "Auth") /\ loc[p].res = "next"
        /\ loc[p].tok \in clientA
        /\ now < RecordTTL
        /\ loc[p].tok.fam \notin DOMAIN familyPtr
        /\ \A u \in DOMAIN userSessions : loc[p].tok.fam \notin userSessions[u]
        /\ loc[p].tok \notin DOMAIN blacklist

\* C30: under any interleaving of getRedisClient calls, at most one client
\* has been created while none has been closed, and a call that returned a
\* client returned one whose connect() had completed successfully.
C30_OneConnectedClient ==
    /\ (\A i \in DOMAIN conns : conns[i] # "closed") => Len(conns) <= 1
    /\ \A c \in Callers :
          (gpc[c] = "idle" /\ gloc[c].res = "client") => gloc[c].gotState = "ready"

====
